---------------------------- MODULE Spec2Model ----------------------------
(***************************************************************************)
(* Model of the dynamic-reference backtesting engine, runBacktest          *)
(* (src/unnamed/part_000).                                                 *)
(*                                                                         *)
(* Prices and money are fixed-point numbers: one currency unit is 1000     *)
(* model units, so the engine's 0.01 price tolerance is 10 units and its   *)
(* lot size of 10000 is 10000 * 1000 units.  Thresholds are whole          *)
(* percents (0.05 is 5).  A product price * (1 +/- threshold) is rounded   *)
(* to the nearest unit, as the IEEE product is rounded to the nearest      *)
(* double.  Comparisons against reference * 1.05 and reference * 0.80 are  *)
(* made exactly, by cross multiplication.                                  *)
(*                                                                         *)
(* The rows of sortedData are revealed one at a time, when the code first  *)
(* reads them: sortedData[0] by the initial buy, sortedData[i] at the top  *)
(* of the main loop.  n is sortedData.length.  DATE is the row's ordinal   *)
(* in sortedData: one row per trading day, so distinct rows carry          *)
(* distinct dates.                                                         *)
(***************************************************************************)
EXTENDS Integers, Sequences, FiniteSets, TLC

\* Longest series explored (number of rows of sortedData).
MaxBars == 3

\* Longest series of flat bars explored.
MaxFlatBars == 10

\* OPEN prices offered for the oldest row: 0.147 and 1.000.
Opens == {147, 1000}

\* HIGH / LOW / CLOSE prices offered for every row.  The engine does not
\* enforce low <= close <= high, so the three are drawn independently.
Levels == {120, 140, 750, 910, 1000, 1150}

LOT_SIZE == 10000 * 1000
THRESHOLD == 5
MAX_POSITIONS_MutSix == 5 + 1
MAX_POSITIONS == 5
MAX_LOOPS_MutTwo == 1 + 1
MAX_LOOPS == 20
\* 0.01 in model units: Math.abs(p.buyPrice - buyPrice) < 0.01
LEVEL_TOLERANCE == 10
\* A field the code leaves undefined on a record.
UNDEF == -1

VARIABLES
  data,               \* the caller's array when it is fixed before the run
  previous,           \* what the caller kept of the earlier runs
  n,                  \* sortedData.length
  pc,                 \* "start" | "seed" | "loop" | "while" | "done" | "threw"
  i,                  \* index of the main loop
  row,                \* the row of sortedData last read
  firstOpen,          \* sortedData[0].OPEN as given in the input
  positions,          \* currently held lots
  transactions,       \* history of all BUY / SELL records
  totalInvested,
  totalRealized,
  reference,
  sellHistory,
  actionTaken,
  loopCount,
  lastSellPriceToday,
  buyPricesToday,
  results             \* the returned BacktestResults, once pc = "done"

vars == <<data, previous, n, pc, i, row, firstOpen, positions,
          transactions, totalInvested,
          totalRealized, reference, sellHistory, actionTaken, loopCount,
          lastSellPriceToday, buyPricesToday, results>>

NoRow == [DATE |-> UNDEF, OPEN |-> 0, HIGH |-> 0, LOW |-> 0, CLOSE |-> 0]
NoResults == [returned |-> FALSE]

\* sortedData[0]: its OPEN seeds the run, its HIGH/LOW/CLOSE are bar 0.
FirstRows ==
  {[DATE |-> 0, OPEN |-> o, HIGH |-> h, LOW |-> l, CLOSE |-> c] :
      o \in Opens, h \in Levels, l \in Levels, c \in Levels}

\* sortedData[d] for d > 0: OPEN is never read, so it is not varied.
LaterRows(d) ==
  {[DATE |-> d, OPEN |-> c, HIGH |-> h, LOW |-> l, CLOSE |-> c] :
      h \in Levels, l \in Levels, c \in Levels}

\* const sortedData = [...data].reverse()
sortedData == [k \in 1..Len(data) |-> data[Len(data) + 1 - k]]

Abs(x) == IF x < 0 THEN -x ELSE x
Max(a, b) == IF a >= b THEN a ELSE b

\* price * (pct / 100), rounded to the nearest unit
Mul(price, pct) == (price * pct + 50) \div 100

\* Math.floor(LOT_SIZE / price)
SharesMutCeil(price) == (LOT_SIZE + price - 1) \div price

Shares(price) == LOT_SIZE \div price

\* positions.sort((a, b) => a.buyPrice - b.buyPrice): stable insertion
RECURSIVE InsertByBuyPrice(_, _)
InsertByBuyPrice(p, s) ==
  IF s = <<>> THEN <<p>>
  ELSE IF s[Len(s)].buyPrice <= p.buyPrice THEN Append(s, p)
  ELSE Append(InsertByBuyPrice(p, SubSeq(s, 1, Len(s) - 1)), s[Len(s)])

\* The array left in insertion order
SortByBuyPriceMutNone(s) == s

RECURSIVE SortByBuyPrice(_)
SortByBuyPrice(s) ==
  IF s = <<>> THEN <<>>
  ELSE InsertByBuyPrice(s[Len(s)], SortByBuyPrice(SubSeq(s, 1, Len(s) - 1)))

\* The sold lot left in the array
SpliceMutKeep(s, idx) == s

\* positions.splice(idx, 1)
Splice(s, idx) == SubSeq(s, 1, idx - 1) \o SubSeq(s, idx + 1, Len(s))

\* if (sellHistory.length > 3) sellHistory.shift()
PushSellHistory(h, p) ==
  LET h2 == Append(h, p) IN IF Len(h2) > 3 THEN Tail(h2) ELSE h2


----------------------------------------------------------------------------
(* The initial buy *)

SeedPositionMutPrice(r) ==
  [buyPrice |-> r.CLOSE, shares |-> Shares(r.CLOSE), date |-> r.DATE,
   buyDate |-> r.DATE, threshold |-> THRESHOLD]

SeedPosition(r) ==
  [buyPrice |-> r.OPEN, shares |-> Shares(r.OPEN), date |-> r.DATE,
   buyDate |-> r.DATE, threshold |-> THRESHOLD]

BuyTransaction(date, price, shares, threshold) ==
  [date |-> date, type |-> "BUY", price |-> price, shares |-> shares,
   amount |-> shares * price, boughtAt |-> UNDEF, buyDate |-> UNDEF,
   profit |-> UNDEF, threshold |-> threshold]

\* The state variables as declared, before the initial buy
StartState ==
  /\ pc = "start"
  /\ i = 0
  /\ row = NoRow
  /\ firstOpen = 0
  /\ positions = <<>>
  /\ transactions = <<>>
  /\ totalInvested = 0
  /\ totalRealized = 0
  /\ reference = 0
  /\ sellHistory = <<>>
  /\ actionTaken = FALSE
  /\ loopCount = 0
  /\ lastSellPriceToday = 0
  /\ buyPricesToday = {}
  /\ results = NoResults

\* One run whose rows are drawn as they are read
RowsDrawn ==
  /\ data = <<>>
  /\ previous = {}

Init ==
  /\ n \in 0..MaxBars
  /\ RowsDrawn
  /\ StartState

\* An empty series returning an all-zero summary
ThrowOnEmptyMutReturn ==
  /\ pc = "start"
  /\ n = 0
  /\ pc' = "done"
  /\ results' = [returned |-> TRUE, totalInvested |-> 0, totalRealized |-> 0,
                 currentValue |-> 0, totalValue |-> 0, totalProfit |-> 0,
                 profitPercentage |-> 0, transactions |-> <<>>,
                 remainingPositions |-> <<>>, totalTrades |-> 0,
                 currentPrice |-> 0, annualizedROI |-> 0,
                 startDate |-> UNDEF, endDate |-> UNDEF]
  /\ UNCHANGED <<data, previous,
                 n, i, row, firstOpen, positions, transactions,
                 totalInvested, totalRealized, reference, sellHistory,
                 actionTaken, loopCount, lastSellPriceToday, buyPricesToday>>

\* sortedData[0] is undefined for an empty series: reading .OPEN throws.
ThrowOnEmpty ==
  /\ pc = "start"
  /\ n = 0
  /\ pc' = "threw"
  /\ UNCHANGED <<data, previous,
                 n, i, row, firstOpen, positions, transactions,
                 totalInvested, totalRealized, reference, sellHistory, actionTaken,
                 loopCount, lastSellPriceToday, buyPricesToday, results>>

\* Lines 53 and 69-88: the seed for sortedData[0] taken from the given rows;
\* input is what the caller's array holds once sortedData has been built
SeedWith(rows, input) ==
  /\ pc = "start"
  /\ n > 0
  /\ \E r \in rows :
       LET lot == SeedPosition(r) IN
       /\ row' = r
       /\ firstOpen' = r.OPEN
       /\ positions' = Append(positions, lot)
       /\ totalInvested' = totalInvested + lot.shares * lot.buyPrice
       /\ reference' = lot.buyPrice
       /\ transactions' =
            Append(transactions,
                   BuyTransaction(r.DATE, lot.buyPrice, lot.shares, UNDEF))
  /\ pc' = "loop"
  /\ data' = input
  /\ UNCHANGED <<previous,
                 n, i, totalRealized, sellHistory, actionTaken, loopCount,
                 lastSellPriceToday, buyPricesToday, results>>

\* Lines 69-88 for sortedData[0] taken from the given rows
SeedFrom(rows) == SeedWith(rows, data)

InitialBuy == SeedFrom(FirstRows)

----------------------------------------------------------------------------
(* Top of the main loop: read the row, apply the two reference resets and  *)
(* initialise the per-day state of the continuous action loop.             *)

\* Recovery mode, lines 137-154: the reference after the block.
RecoveryReferenceMut110(pos, ref, r) ==
  IF Len(pos) = 0 /\ r.CLOSE * 100 > ref * 110 /\ r.CLOSE > ref
  THEN r.HIGH ELSE ref

\* Recovery resetting the reference to the close instead of the high
RecoveryReferenceMutClose(pos, ref, r) ==
  IF Len(pos) = 0 /\ r.CLOSE * 100 > ref * 105 /\ r.CLOSE > ref
  THEN r.CLOSE ELSE ref

RecoveryReference(pos, ref, r) ==
  IF Len(pos) = 0 /\ r.CLOSE * 100 > ref * 105 /\ r.CLOSE > ref
  THEN r.HIGH ELSE ref

\* Falling stock adjustment, lines 161-167: the reference after the block.
FallingReferenceMutLow(pos, ref, r) ==
  IF Len(pos) > 0 /\ r.CLOSE * 100 < ref * 80 THEN r.LOW ELSE ref

\* Falling stock adjustment applied whatever the ledger holds
FallingReferenceMutAnyLedger(pos, ref, r) ==
  IF r.CLOSE * 100 < ref * 80 THEN r.CLOSE ELSE ref

FallingReference(pos, ref, r) ==
  IF Len(pos) > 0 /\ r.CLOSE * 100 < ref * 80 THEN r.CLOSE ELSE ref

BeginBar(r) ==
  /\ row' = r
  /\ reference' =
       FallingReference(positions, RecoveryReference(positions, reference, r), r)
  /\ actionTaken' = TRUE
  /\ loopCount' = 0
  /\ lastSellPriceToday' = 0
  /\ buyPricesToday' = {}
  /\ pc' = "while"
  /\ UNCHANGED <<data, previous,
                 n, i, firstOpen, positions, transactions, totalInvested,
                 totalRealized, sellHistory, results>>

\* Top of the body for sortedData[i] taken from the given rows; row 0 was
\* already read by the initial buy.
BarStartIn(rows) ==
  /\ pc = "loop"
  /\ i < n
  /\ \E r \in (IF i = 0 THEN {row} ELSE rows) : BeginBar(r)

BarStart == BarStartIn(LaterRows(i))

\* End of the body of the main loop: i++.  The row goes out of scope; the
\* last row stays readable as sortedData[sortedData.length - 1].
EndBar ==
  /\ i' = i + 1
  /\ row' = IF i + 1 = n THEN row ELSE NoRow
  /\ pc' = "loop"

----------------------------------------------------------------------------
(* One iteration of the continuous action loop                             *)

\* pos.buyDate === date
boughtTodayMutNever(p, date) == FALSE

boughtToday(p, date) == p.buyDate = date

\* positions.findIndex(p => p.buyDate !== date); 0 stands for -1
RECURSIVE FindSellable(_, _, _)
FindSellable(pos, date, k) ==
  IF k > Len(pos) THEN 0
  ELSE IF ~boughtToday(pos[k], date) THEN k
  ELSE FindSellable(pos, date, k + 1)

sellablePosIndex(pos, date) == FindSellable(pos, date, 1)

\* pos.threshold || THRESHOLD
sellThresholdOf(p) ==
  IF p.threshold = UNDEF \/ p.threshold = 0 THEN THRESHOLD ELSE p.threshold

\* pos.buyPrice * (1 + sellThreshold)
sellPriceOfMutBase(p) == Mul(p.buyPrice, 100 + THRESHOLD)

sellPriceOfMutNoMarkup(p) == p.buyPrice

\* The target below the entry price
sellPriceOfMutMarkdown(p) == Mul(p.buyPrice, 100 - sellThresholdOf(p))

sellPriceOf(p) == Mul(p.buyPrice, 100 + sellThresholdOf(p))

\* The SELL record carrying the cost of the lot as its amount
SellTransactionMutCost(date, p) ==
  LET sellPrice == sellPriceOf(p)
      sellAmount == p.shares * sellPrice
  IN [date |-> date, type |-> "SELL", price |-> sellPrice,
      shares |-> p.shares, amount |-> p.shares * p.buyPrice,
      boughtAt |-> p.buyPrice, buyDate |-> p.buyDate,
      profit |-> sellAmount - p.shares * p.buyPrice,
      threshold |-> sellThresholdOf(p)]

\* The SELL record carrying the gross proceeds as its profit
SellTransactionMutGross(date, p) ==
  LET sellPrice == sellPriceOf(p)
      sellAmount == p.shares * sellPrice
  IN [date |-> date, type |-> "SELL", price |-> sellPrice,
      shares |-> p.shares, amount |-> sellAmount,
      boughtAt |-> p.buyPrice, buyDate |-> p.buyDate,
      profit |-> sellAmount,
      threshold |-> sellThresholdOf(p)]

SellTransaction(date, p) ==
  LET sellPrice == sellPriceOf(p)
      sellAmount == p.shares * sellPrice
  IN [date |-> date, type |-> "SELL", price |-> sellPrice,
      shares |-> p.shares, amount |-> sellAmount, boughtAt |-> p.buyPrice,
      buyDate |-> p.buyDate, profit |-> sellAmount - p.shares * p.buyPrice,
      threshold |-> sellThresholdOf(p)]

\* Dynamic threshold from the number of held positions, lines 341-347
currentThresholdMutNo20(np) == IF np >= 3 THEN 10 ELSE THRESHOLD

currentThreshold(np) ==
  IF np = 3 THEN 10 ELSE IF np >= 4 THEN 20 ELSE THRESHOLD

\* reference * (1 - currentThreshold)
refBuyPriceOf(ref, thr) == Mul(ref, 100 - thr)

\* Gap down: the buy executes at CLOSE when the target is above HIGH
executionPriceMutTarget(target, r) == target

executionPrice(target, r) == IF target > r.HIGH THEN r.CLOSE ELSE target

\* positions.find(p => Math.abs(p.buyPrice - buyPrice) < 0.01)
existingAtLevelMutNone(pos, buyPrice) == FALSE

existingAtLevel(pos, buyPrice) ==
  \E k \in 1..Len(pos) : Abs(pos[k].buyPrice - buyPrice) < LEVEL_TOLERANCE

\* potentialBuys without the test that the low reaches the target
potentialBuysMutNoLow(pos, ref, r, lastSell, boughtSet) ==
  LET target == refBuyPriceOf(ref, currentThreshold(Len(pos)))
      price == executionPrice(target, r)
  IN IF lastSell = 0 /\ price \notin boughtSet
     THEN <<price>> ELSE <<>>

\* potentialBuys with the low strictly below the target
potentialBuysMutStrict(pos, ref, r, lastSell, boughtSet) ==
  LET target == refBuyPriceOf(ref, currentThreshold(Len(pos)))
      price == executionPrice(target, r)
  IN IF r.LOW < target /\ lastSell = 0 /\ price \notin boughtSet
     THEN <<price>> ELSE <<>>

\* Lines 356-381: the prices pushed on potentialBuys (at most one)
potentialBuys(pos, ref, r, lastSell, boughtSet) ==
  LET target == refBuyPriceOf(ref, currentThreshold(Len(pos)))
      price == executionPrice(target, r)
  IN IF r.LOW <= target /\ lastSell = 0 /\ price \notin boughtSet
     THEN <<price>> ELSE <<>>

\* The sell of positions[idx], lines 234-274 and 282-318, then continue
Sell(sorted, idx, lc) ==
  LET p == sorted[idx]
      t == SellTransaction(row.DATE, p)
  IN /\ totalRealized' = totalRealized + t.amount
     /\ transactions' = Append(transactions, t)
     /\ positions' = Splice(sorted, idx)
     /\ reference' = t.price
     /\ lastSellPriceToday' = Max(lastSellPriceToday, t.price)
     /\ sellHistory' = PushSellHistory(sellHistory, t.price)
     /\ actionTaken' = TRUE
     /\ loopCount' = lc
     /\ UNCHANGED <<data, previous,
                    n, pc, i, row, firstOpen, totalInvested,
                    buyPricesToday, results>>

\* break: leaves the while loop, the main loop goes on to the next row
Break(sorted, lc) ==
  /\ positions' = sorted
  /\ actionTaken' = FALSE
  /\ loopCount' = lc
  /\ EndBar
  /\ UNCHANGED <<data, previous,
                 n, firstOpen, transactions, totalInvested, totalRealized,
                 reference, sellHistory, lastSellPriceToday,
                 buyPricesToday, results>>

\* Step 2, lines 333-501
BuyStep(sorted, lc) ==
  IF Len(sorted) >= MAX_POSITIONS
  THEN Break(sorted, lc)       \* actionTaken is false here: sells continue
  ELSE
    LET thr == currentThreshold(Len(sorted))
        buys == potentialBuys(sorted, reference, row, lastSellPriceToday,
                              buyPricesToday)
        buyPrice == buys[1]
    IN IF /\ buys # <<>>
          /\ ~existingAtLevel(sorted, buyPrice)
          /\ buyPrice \notin buyPricesToday
       THEN
         LET shares == Shares(buyPrice) IN
         /\ positions' = Append(sorted,
              [buyPrice |-> buyPrice, shares |-> shares, date |-> row.DATE,
               buyDate |-> row.DATE, threshold |-> thr])
         /\ totalInvested' = totalInvested + shares * buyPrice
         /\ transactions' = Append(transactions,
              BuyTransaction(row.DATE, buyPrice, shares, thr))
         /\ buyPricesToday' = buyPricesToday \cup {buyPrice}
         /\ reference' = buyPrice
         /\ actionTaken' = TRUE
         /\ loopCount' = lc
         /\ UNCHANGED <<data, previous,
                        n, pc, i, row, firstOpen, totalRealized,
                        sellHistory, lastSellPriceToday, results>>
       ELSE
         /\ positions' = sorted
         /\ actionTaken' = FALSE
         /\ loopCount' = lc
         /\ UNCHANGED <<data, previous,
                        n, pc, i, row, firstOpen, transactions,
                        totalInvested, totalRealized, reference,
                        sellHistory, lastSellPriceToday, buyPricesToday,
                        results>>

\* Step 1, lines 200-321, falling through to step 2 when nothing sells
SellStep(lc) ==
  IF positions = <<>>
  THEN BuyStep(positions, lc)
  ELSE
    LET sorted == SortByBuyPrice(positions) IN
    IF boughtToday(sorted[1], row.DATE)
    THEN
      LET idx == sellablePosIndex(sorted, row.DATE) IN
      IF idx = 0 THEN Break(sorted, lc)
      ELSE IF row.HIGH >= sellPriceOf(sorted[idx]) THEN Sell(sorted, idx, lc)
      ELSE BuyStep(sorted, lc)
    ELSE
      IF row.HIGH >= sellPriceOf(sorted[1]) THEN Sell(sorted, 1, lc)
      ELSE BuyStep(sorted, lc)

Iteration ==
  /\ pc = "while"
  /\ actionTaken
  /\ LET lc == loopCount + 1 IN
     IF lc > MAX_LOOPS THEN Break(positions, lc) ELSE SellStep(lc)

\* while (actionTaken) is false: the body of the main loop ends
WhileExit ==
  /\ pc = "while"
  /\ ~actionTaken
  /\ EndBar
  /\ UNCHANGED <<data, previous,
                 n, firstOpen, positions, transactions, totalInvested,
                 totalRealized, reference, sellHistory, actionTaken,
                 loopCount, lastSellPriceToday, buyPricesToday, results>>

----------------------------------------------------------------------------
(* Final results, lines 529-577                                           *)

\* t.profit || 0
ProfitOrZero(t) == IF t.profit = UNDEF THEN 0 ELSE t.profit

\* Holdings valued at their entry prices
RECURSIVE CurrentValueMutCost(_, _)
CurrentValueMutCost(pos, lastClose) ==
  IF pos = <<>> THEN 0
  ELSE Head(pos).shares * Head(pos).buyPrice
         + CurrentValueMutCost(Tail(pos), lastClose)

\* for (const pos of positions) currentValue += pos.shares * lastClose
RECURSIVE CurrentValue(_, _)
CurrentValue(pos, lastClose) ==
  IF pos = <<>> THEN 0
  ELSE Head(pos).shares * lastClose + CurrentValue(Tail(pos), lastClose)

\* Total value minus total invested (the formula of the comment at
\* line 527), which counts the unrealized gain or loss of the open lots
RealizedProfitOnlyMutMarked(txs) ==
  totalRealized + CurrentValue(positions, row.CLOSE) - totalInvested

\* transactions.reduce((sum, t) => sum + (t.profit || 0), 0)
RECURSIVE RealizedProfitOnly(_)
RealizedProfitOnly(txs) ==
  IF txs = <<>> THEN 0
  ELSE ProfitOrZero(Head(txs)) + RealizedProfitOnly(Tail(txs))

\* The quotient without the guard: 0 / 0 is not a number
ProfitPercentageMutNoGuard(totalProfit, invested) ==
  IF invested = 0 THEN UNDEF ELSE (totalProfit * 100) \div invested

\* totalInvested > 0 ? (totalProfit / totalInvested) * 100 : 0
ProfitPercentage(totalProfit, invested) ==
  IF invested > 0 THEN (totalProfit * 100) \div invested ELSE 0

\* yearsElapsed = totalDays / 365;
\* (yearsElapsed > 0 ? totalProfit / yearsElapsed : 0) * 100 / 35000
AnnualizedROI(totalProfit, totalDays) ==
  IF totalDays > 0 THEN (totalProfit * 73) \div (totalDays * 70) ELSE 0

Finish ==
  /\ pc = "loop"
  /\ i >= n
  /\ LET lastClose == row.CLOSE
         currentValue == CurrentValue(positions, lastClose)
         realizedProfitOnly == RealizedProfitOnly(transactions)
         totalValue == totalRealized + currentValue
         totalProfit == realizedProfitOnly
         profitPercentage == ProfitPercentage(totalProfit, totalInvested)
         \* Dates are day numbers; the oldest row drawn is dated day 0
         startDate == IF data = <<>> THEN 0 ELSE sortedData[1].DATE
         endDate == IF data = <<>> THEN row.DATE ELSE sortedData[n].DATE
         totalDays == Abs(endDate - startDate)
         annualizedROI == AnnualizedROI(totalProfit, totalDays)
     IN results' =
          [returned |-> TRUE,
           totalInvested |-> totalInvested,
           totalRealized |-> totalRealized,
           currentValue |-> currentValue,
           totalValue |-> totalValue,
           totalProfit |-> totalProfit,
           profitPercentage |-> profitPercentage,
           transactions |-> transactions,
           remainingPositions |-> positions,
           totalTrades |-> Len(transactions),
           currentPrice |-> lastClose,
           annualizedROI |-> annualizedROI,
           startDate |-> startDate,
           endDate |-> endDate]
  /\ pc' = "done"
  /\ UNCHANGED <<data, previous,
                 n, i, row, firstOpen, positions, transactions,
                 totalInvested, totalRealized, reference, sellHistory,
                 actionTaken, loopCount, lastSellPriceToday,
                 buyPricesToday>>

Next ==
  \/ ThrowOnEmpty
  \/ InitialBuy
  \/ BarStart
  \/ Iteration
  \/ WhileExit
  \/ Finish

Spec == Init /\ [][Next]_vars

TypeOK ==
  /\ n \in 0..MaxBars
  /\ pc \in {"start", "seed", "loop", "while", "done", "threw"}
  /\ i \in 0..n
  /\ Len(positions) <= Len(transactions)
  /\ reference >= 0

----------------------------------------------------------------------------
(* Properties                                                              *)

Last(s) == s[Len(s)]

\* The step just recorded one transaction of the given type
Recorded(type) ==
  /\ Len(transactions') = Len(transactions) + 1
  /\ Last(transactions').type = type

\* C1 - Seed invariant: once the run of a non-empty series has started, the
\* first transaction is a BUY dated on the oldest bar at that bar's open
\* price, and before bar 0 is processed the reference is that same price.
C1_SeedInvariant ==
  pc \in {"loop", "while", "done"} =>
    /\ Len(transactions) >= 1
    /\ transactions[1].type = "BUY"
    /\ transactions[1].date = 0
    /\ transactions[1].price = firstOpen
    /\ (pc = "loop" /\ i = 0 => reference = firstOpen)

\* The seed has been bought from a row whose close differs from its open.
C1_Witness ==
  /\ pc = "loop" /\ i = 0
  /\ Len(transactions) = 1
  /\ reference = row.OPEN
  /\ row.CLOSE # row.OPEN /\ row.HIGH # row.OPEN

\* C2 - Cap enforcement: at most 5 lots are open in every reachable state.
C2_CapEnforcement == Len(positions) <= 5

\* Four buys on one bar have filled the ledger to five lots, and the bar's
\* low is still below the next buy target.
C2_Witness ==
  /\ pc = "loop"
  /\ Len(positions) = 5
  /\ row.LOW <= Mul(reference, 80)
  /\ Cardinality({k \in 1..5 : positions[k].buyDate = row.DATE}) = 4

\* C3 - No same-day round trip: no SELL is dated on the entry date of the
\* lot it closes.
C3_NoSameDayRoundTrip ==
  \A k \in 1..Len(transactions) :
    transactions[k].type = "SELL" =>
      transactions[k].date # transactions[k].buyDate

\* The bar's processing has ended with a lot bought on this bar still
\* open although the bar's high reached its sell target.
C3_Witness ==
  /\ pc = "while" /\ ~actionTaken
  /\ \E k \in 1..Len(positions) :
       /\ positions[k].buyDate = row.DATE
       /\ row.HIGH >= Mul(positions[k].buyPrice, 100 + positions[k].threshold)

C6_NoDuplicateSameDayLevels ==
  \A j \in 1..Len(transactions) : \A k \in 1..Len(transactions) :
    (/\ j < k
     /\ transactions[j].type = "BUY"
     /\ transactions[k].type = "BUY"
     /\ transactions[j].date = transactions[k].date)
      => Abs(transactions[j].price - transactions[k].price) >= 10

\* A price bought earlier on this bar was triggered again and not bought.
C6_Witness ==
  /\ pc = "while" /\ ~actionTaken
  /\ Len(positions) < 5
  /\ lastSellPriceToday = 0
  /\ LET target == Mul(reference, 100 - currentThreshold(Len(positions)))
     IN /\ row.LOW <= target
        /\ (IF target > row.HIGH THEN row.CLOSE ELSE target) \in buyPricesToday

\* C7 - Ledger uniqueness: two open lots never have entry prices less than
\* 0.01 apart.
C7_LedgerUniqueness ==
  \A j \in 1..Len(positions) : \A k \in 1..Len(positions) :
    j # k => Abs(positions[j].buyPrice - positions[k].buyPrice) >= 10

\* A buy was triggered at a price not bought on this bar and was refused
\* because a lot is held within 0.01 of it.
C7_Witness ==
  /\ pc = "while" /\ ~actionTaken
  /\ Len(positions) \in 1..4
  /\ lastSellPriceToday = 0
  /\ LET target == Mul(reference, 100 - currentThreshold(Len(positions)))
         price == IF target > row.HIGH THEN row.CLOSE ELSE target
     IN /\ row.LOW <= target
        /\ price \notin buyPricesToday
        /\ \E k \in 1..Len(positions) :
             Abs(positions[k].buyPrice - price) < 10

\* C8 - Gap-down rule: a BUY in the buy pass is recorded only if the bar's
\* low is at or below target = reference * (1 - currentThreshold); it is
\* at the bar's close when target > high and at target otherwise.
C8_GapDownRule ==
  [][ (pc = "while" /\ Recorded("BUY")) =>
        LET target ==
              Mul(reference, 100 - currentThreshold(Len(positions)))
        IN /\ row.LOW <= target
           /\ Last(transactions').price =
                IF target > row.HIGH THEN row.CLOSE ELSE target
    ]_vars

\* Reference 1.000, low 0.750, high 0.910, close 0.910: the BUY is at
\* 0.910, not at the target 0.950.
C8_Witness ==
  /\ i = 1
  /\ Len(transactions) = 2
  /\ transactions[1].price = 1000
  /\ row.LOW = 750 /\ row.HIGH = 910 /\ row.CLOSE = 910
  /\ transactions[2].type = "BUY"
  /\ transactions[2].price = 910

C10_FallingMarketReset ==
  [][ (/\ pc = "loop" /\ pc' = "while"
       /\ Len(positions) >= 1
       /\ row'.CLOSE * 100 < reference * 80)
        => (reference' = row'.CLOSE /\ loopCount' = 0)
    ]_vars

\* One open lot, reference 1.000, close 0.750: the inner loop starts with
\* the reference at 0.750.
C10_Witness ==
  /\ pc = "while" /\ loopCount = 0
  /\ i = 0
  /\ firstOpen = 1000
  /\ row.CLOSE = 750
  /\ Len(positions) = 1
  /\ Len(transactions) = 1
  /\ reference = 750

\* The sell trigger of a bar: the lowest-priced lot not bought on the bar
\* has its sell target at or below the bar's high.
SellTriggerEnabled(pos, r) ==
  \E k \in 1..Len(pos) :
    /\ pos[k].buyDate # r.DATE
    /\ \A j \in 1..Len(pos) :
         pos[j].buyDate # r.DATE => pos[k].buyPrice <= pos[j].buyPrice
    /\ r.HIGH >= Mul(pos[k].buyPrice, 100 + pos[k].threshold)

\* The buy trigger of a bar: fewer than 5 lots, the bar's low at or below
\* reference * (1 - currentThreshold), and the level to buy neither held
\* nor bought earlier on the bar.
BuyTriggerEnabled(pos, ref, r, bought) ==
  /\ Len(pos) < 5
  /\ LET np == Len(pos)
         thr == IF np <= 2 THEN 5 ELSE IF np = 3 THEN 10 ELSE 20
         target == Mul(ref, 100 - thr)
         price == IF target > r.HIGH THEN r.CLOSE ELSE target
     IN /\ r.LOW <= target
        /\ \A k \in 1..np : Abs(pos[k].buyPrice - price) >= 10
        /\ price \notin bought

\* C11 - Fixed-point processing of a bar: when the inner loop of a bar
\* stops before the cap of 20 passes, neither the sell trigger nor the buy
\* trigger is still enabled for that bar.
C11_FixedPoint ==
  [][ (/\ pc = "while" /\ actionTaken /\ ~actionTaken'
       /\ loopCount' <= 20)
        => /\ ~SellTriggerEnabled(positions', row)
           /\ ~BuyTriggerEnabled(positions', reference', row,
                                 buyPricesToday')
    ]_vars

----------------------------------------------------------------------------
(* Series of flat bars next to the free series: a series whose first open  *)
(* is 100.00 has open = high = low = close = 100.00 on every row and up to *)
(* MaxFlatBars rows; every other series is as in Spec.                     *)

FlatPrice == 100 * 1000

FlatRow(d) ==
  [DATE |-> d, OPEN |-> FlatPrice, HIGH |-> FlatPrice, LOW |-> FlatPrice,
   CLOSE |-> FlatPrice]

InitFrame ==
  /\ n \in 0..MaxFlatBars
  /\ RowsDrawn
  /\ StartState

InitialBuyFree == n <= MaxBars /\ InitialBuy

InitialBuyFlat == SeedFrom({FlatRow(0)})

BarStartFree == firstOpen # FlatPrice /\ BarStart

BarStartFlat == firstOpen = FlatPrice /\ BarStartIn({FlatRow(i)})

NextFrame ==
  \/ ThrowOnEmpty
  \/ InitialBuyFree
  \/ InitialBuyFlat
  \/ BarStartFree
  \/ BarStartFlat
  \/ Iteration
  \/ WhileExit
  \/ Finish

SpecFrame == InitFrame /\ [][NextFrame]_vars

\* No start-of-bar reset applies to the bar
NoReset(pos, ref, r) ==
  /\ ~(Len(pos) = 0 /\ r.CLOSE * 100 > ref * 105)
  /\ ~(Len(pos) >= 1 /\ r.CLOSE * 100 < ref * 80)

\* No lot not bought on the bar has its sell target reached by the bar's
\* high, and the bar's low is above reference * (1 - currentThreshold).
NoTrigger(pos, ref, r) ==
  /\ \A k \in 1..Len(pos) :
       pos[k].buyDate # r.DATE =>
         r.HIGH < Mul(pos[k].buyPrice, 100 + pos[k].threshold)
  /\ LET np == Len(pos)
         thr == IF np <= 2 THEN 5 ELSE IF np = 3 THEN 10 ELSE 20
     IN r.LOW > Mul(ref, 100 - thr)

\* The step changes neither the lots held, the reference, the transaction
\* list nor the invested and realized totals.
FrameKept ==
  /\ transactions' = transactions
  /\ reference' = reference
  /\ Len(positions') = Len(positions)
  /\ {positions'[k] : k \in 1..Len(positions')} =
       {positions[k] : k \in 1..Len(positions)}
  /\ totalInvested' = totalInvested
  /\ totalRealized' = totalRealized

\* C12 - No-trigger frame: on a bar with no mode reset, no eligible lot at
\* its sell target and the low above the buy target, the start of the bar
\* and every pass of its inner loop leave ledger, reference and
\* transactions unchanged; and 10 bars with open = high = low = close =
\* 100 return exactly one transaction, the seed BUY of 100 shares at 100,
\* and one open lot.
C12_NoTriggerFrame ==
  /\ [][ /\ (/\ pc = "loop" /\ pc' = "while"
             /\ NoReset(positions, reference, row')
             /\ NoTrigger(positions, reference, row')) => FrameKept
         /\ (/\ pc = "while"
             /\ NoTrigger(positions, reference, row)) => FrameKept
       ]_vars
  /\ [](pc = "done" /\ firstOpen = FlatPrice /\ n = 10 =>
          /\ results.totalTrades = 1
          /\ Len(results.transactions) = 1
          /\ results.transactions[1].type = "BUY"
          /\ results.transactions[1].date = 0
          /\ results.transactions[1].price = 100 * 1000
          /\ results.transactions[1].shares = 100
          /\ Len(results.remainingPositions) = 1
          /\ results.remainingPositions[1].buyPrice = 100 * 1000)

\* The run over 10 flat bars at 100.00 has returned.
C12_Witness ==
  /\ pc = "done"
  /\ firstOpen = FlatPrice
  /\ n = 10
  /\ i = 10
  /\ results.totalTrades = 1

----------------------------------------------------------------------------
(* Re-entry after a full exit: the three-day series Day1 open = 100;       *)
(* Day2 high = 105, low = 100; Day3 low = 99.75, high = 100.  The fields   *)
(* the series leaves open are drawn: any Day1 high, low and close, and a   *)
(* Day2 and Day3 close within the day's range.                             *)

DayOneLevels == {75 * 1000, 95 * 1000, 100 * 1000, 105 * 1000, 112 * 1000}

DayOneRows ==
  {[DATE |-> 0, OPEN |-> 100 * 1000, HIGH |-> h, LOW |-> l, CLOSE |-> c] :
      h \in DayOneLevels, l \in DayOneLevels, c \in DayOneLevels}

ReentryRows(d) ==
  IF d = 1
  THEN {[DATE |-> 1, OPEN |-> c, HIGH |-> 105 * 1000, LOW |-> 100 * 1000,
         CLOSE |-> c] : c \in {100 * 1000, 105 * 1000}}
  ELSE IF d = 2
  THEN {[DATE |-> 2, OPEN |-> c, HIGH |-> 100 * 1000, LOW |-> 99750,
         CLOSE |-> c] : c \in {99750, 100 * 1000}}
  ELSE {}

InitReentry ==
  /\ n \in 1..3
  /\ RowsDrawn
  /\ StartState

InitialBuyReentry == SeedFrom(DayOneRows)

BarStartReentry == BarStartIn(ReentryRows(i))

NextReentry ==
  \/ InitialBuyReentry
  \/ BarStartReentry
  \/ Iteration
  \/ WhileExit
  \/ Finish

SpecReentry == InitReentry /\ [][NextReentry]_vars

\* C13 - Re-entry after a full exit: the three-day series records exactly
\* BUY 100 shares at 100 on Day1, SELL at 105 with profit 500 on Day2
\* (reference 105 after Day2) and BUY 100 shares at 99.75 on Day3
\* (reference 99.75 at the end).
C13_ReentryAfterFullExit ==
  /\ (pc = "loop" /\ i = 2) =>
       /\ Len(transactions) = 2
       /\ positions = <<>>
       /\ reference = 105 * 1000
  /\ (pc = "done" /\ n = 3) =>
       /\ Len(results.transactions) = 3
       /\ LET b1 == results.transactions[1]
              s2 == results.transactions[2]
              b3 == results.transactions[3]
          IN /\ b1.type = "BUY" /\ b1.date = 0
             /\ b1.shares = 100 /\ b1.price = 100 * 1000
             /\ s2.type = "SELL" /\ s2.date = 1
             /\ s2.shares = 100 /\ s2.price = 105 * 1000
             /\ s2.boughtAt = 100 * 1000 /\ s2.profit = 500 * 1000
             /\ b3.type = "BUY" /\ b3.date = 2
             /\ b3.shares = 100 /\ b3.price = 99750
       /\ reference = 99750
       /\ Len(results.remainingPositions) = 1

\* The three-day run has returned.
C13_Witness ==
  /\ pc = "done"
  /\ n = 3
  /\ i = 3
  /\ results.totalTrades = 3
  /\ results.currentPrice = 99750

----------------------------------------------------------------------------
\* Sum of the amounts of the BUY transactions of txs
RECURSIVE BuyAmounts(_)
BuyAmounts(txs) ==
  IF txs = <<>> THEN 0
  ELSE (IF txs[1].type = "BUY" THEN txs[1].amount ELSE 0)
         + BuyAmounts(Tail(txs))

\* C14 - Fixed lot sizing: every BUY opens a lot of floor(10000 / price)
\* shares with amount price * shares, no BUY amount exceeds 10000, and
\* totalInvested is the sum of all BUY amounts.
C14_FixedLotSizing ==
  /\ [][ (Len(transactions') = Len(transactions) + 1
          /\ Last(transactions').type = "BUY")
            => \E k \in 1..Len(positions') :
                 /\ positions'[k].buyPrice = Last(transactions').price
                 /\ positions'[k].shares = Last(transactions').shares
                 /\ positions'[k].buyDate = Last(transactions').date
                 /\ Len(positions') = Len(positions) + 1
       ]_vars
  /\ [](\A k \in 1..Len(transactions) :
          transactions[k].type = "BUY" =>
            /\ transactions[k].shares = (10000 * 1000) \div transactions[k].price
            /\ transactions[k].amount
                 = transactions[k].price * transactions[k].shares
            /\ transactions[k].amount <= 10000 * 1000)
  /\ [](totalInvested = BuyAmounts(transactions))
  /\ [](pc = "done" => results.totalInvested = BuyAmounts(results.transactions))

\* A run that returned with a later BUY whose amount falls short of 10000.
C14_Witness ==
  /\ pc = "done"
  /\ \E k \in 2..Len(results.transactions) :
       /\ results.transactions[k].type = "BUY"
       /\ results.transactions[k].amount < 10000 * 1000
       /\ results.transactions[k].amount > 0
  /\ results.totalInvested > 10000 * 1000

----------------------------------------------------------------------------
\* Sum of F over the transactions of the given type, F being the amount
\* (what = "amount") or the profit (what = "profit") of a transaction
RECURSIVE SumOver(_, _, _)
SumOver(txs, type, what) ==
  IF txs = <<>> THEN 0
  ELSE (IF txs[1].type = type
        THEN (IF what = "amount" THEN txs[1].amount ELSE txs[1].profit)
        ELSE 0)
       + SumOver(Tail(txs), type, what)

\* Sum of the shares of the lots of pos
RECURSIVE SharesHeld(_)
SharesHeld(pos) ==
  IF pos = <<>> THEN 0 ELSE pos[1].shares + SharesHeld(Tail(pos))

\* C15 - Aggregation totals: in the returned summary currentValue is the
\* sum over the remaining open lots of shares times the last bar's close,
\* totalRealized the sum of the amounts of the SELL transactions,
\* totalValue = totalRealized + currentValue, and totalTrades the number
\* of transactions.
C15_AggregationTotals ==
  pc = "done" =>
    /\ results.currentValue
         = SharesHeld(results.remainingPositions) * row.CLOSE
    /\ results.currentPrice = row.CLOSE
    /\ row.DATE = n - 1
    /\ results.totalRealized = SumOver(results.transactions, "SELL", "amount")
    /\ results.totalValue = results.totalRealized + results.currentValue
    /\ results.totalTrades = Len(results.transactions)
    /\ results.transactions = transactions
    /\ results.remainingPositions = positions

\* A returned run with a SELL and with open lots whose value at the last
\* close differs from their cost.
C15_Witness ==
  /\ pc = "done"
  /\ results.totalRealized > 0
  /\ Len(results.remainingPositions) >= 2
  /\ results.currentValue
       # CurrentValueMutCost(results.remainingPositions, row.CLOSE)
  /\ results.totalTrades >= 4

----------------------------------------------------------------------------
(* Series priced around the lot size: a seed at 12000 buys 0 shares, a     *)
(* seed or a buy at 9000 or below buys 1 share.                            *)

MaxShortBars == 2

HighOpens == {9000 * 1000, 12000 * 1000}
HighLevels == {9000 * 1000, 11400 * 1000, 12600 * 1000}

HighFirstRows ==
  {[DATE |-> 0, OPEN |-> o, HIGH |-> h, LOW |-> l, CLOSE |-> c] :
      o \in HighOpens, h \in HighLevels, l \in HighLevels, c \in HighLevels}

HighLaterRows(d) ==
  {[DATE |-> d, OPEN |-> c, HIGH |-> h, LOW |-> l, CLOSE |-> c] :
      h \in HighLevels, l \in HighLevels, c \in HighLevels}

InitHigh ==
  /\ n \in 1..MaxShortBars
  /\ RowsDrawn
  /\ StartState

InitialBuyHigh == SeedFrom(HighFirstRows)

BarStartHigh == BarStartIn(HighLaterRows(i))

NextHigh ==
  \/ InitialBuyHigh
  \/ BarStartHigh
  \/ Iteration
  \/ WhileExit
  \/ Finish

SpecHigh == InitHigh /\ [][NextHigh]_vars

\* C17 - Degenerate inputs are not errors: profitPercentage is 0 when
\* totalInvested is 0 (a seed price above 10000 buys 0 shares),
\* annualizedROI is 0 when the first and last bar dates coincide, and the
\* run returns in both cases.
C17_DegenerateInputs ==
  /\ pc # "threw"
  /\ (pc = "loop" /\ i >= n) => ENABLED Finish
  /\ pc = "done" =>
       /\ results.returned
       /\ results.totalInvested = 0 => results.profitPercentage = 0
       /\ results.startDate = results.endDate => results.annualizedROI = 0
       /\ firstOpen > 10000 * 1000 => results.transactions[1].shares = 0

\* A one-bar run seeded above 10000 has returned: nothing invested, first
\* and last date the same.
C17_Witness ==
  /\ pc = "done"
  /\ firstOpen > 10000 * 1000
  /\ results.totalInvested = 0
  /\ results.startDate = results.endDate
  /\ results.remainingPositions[1].shares = 0

----------------------------------------------------------------------------
(* Several runs by one caller: each run is handed a whole series, newest   *)
(* row first, and the caller keeps the summary of every run it made.       *)

MaxKept == 2

\* The rows a series may hold for the date d
PoolRows(d) ==
  IF d = 0
  THEN {[DATE |-> 0, OPEN |-> 1000, HIGH |-> 1000, LOW |-> 1000,
         CLOSE |-> 1000],
        [DATE |-> 0, OPEN |-> 147, HIGH |-> 147, LOW |-> 140,
         CLOSE |-> 140]}
  ELSE {[DATE |-> d, OPEN |-> l, HIGH |-> h, LOW |-> l, CLOSE |-> l] :
          h \in {1000, 1150}, l \in {140, 910}}

\* The series of the given length, newest row first
SeriesOf(len) ==
  {s \in [1..len -> UNION {PoolRows(d) : d \in 0..(len - 1)}] :
     \A k \in 1..len : s[k] \in PoolRows(len - k)}

SeriesPool == SeriesOf(1) \cup SeriesOf(2)

\* State kept outside the function: ledger, transactions, reference and
\* totals survive from one call to the next
FreshStateMutShared ==
  /\ pc' = "start"
  /\ i' = 0
  /\ row' = NoRow
  /\ firstOpen' = 0
  /\ actionTaken' = FALSE
  /\ loopCount' = 0
  /\ lastSellPriceToday' = 0
  /\ results' = NoResults
  /\ UNCHANGED <<positions, transactions, totalInvested, totalRealized,
                 reference, sellHistory, buyPricesToday>>

\* The state variables are declared inside runBacktest: every call starts
\* from their initial values
FreshState ==
  /\ pc' = "start"
  /\ i' = 0
  /\ row' = NoRow
  /\ firstOpen' = 0
  /\ positions' = <<>>
  /\ transactions' = <<>>
  /\ totalInvested' = 0
  /\ totalRealized' = 0
  /\ reference' = 0
  /\ sellHistory' = <<>>
  /\ actionTaken' = FALSE
  /\ loopCount' = 0
  /\ lastSellPriceToday' = 0
  /\ buyPricesToday' = {}
  /\ results' = NoResults

InitRuns ==
  /\ data \in SeriesPool
  /\ n = Len(data)
  /\ previous = {}
  /\ StartState

InitialBuyGiven == SeedFrom({sortedData[1]})

BarStartGiven == BarStartIn({sortedData[i + 1]})

\* The caller keeps the summary and calls runBacktest again
Rerun ==
  /\ pc = "done"
  /\ Cardinality(previous \cup {<<data, results>>}) <= MaxKept
  /\ previous' = previous \cup {<<data, results>>}
  /\ \E d \in SeriesPool :
       /\ data' = d
       /\ n' = Len(d)
  /\ FreshState

NextRuns ==
  \/ InitialBuyGiven
  \/ BarStartGiven
  \/ Iteration
  \/ WhileExit
  \/ Finish
  \/ Rerun

SpecRuns == InitRuns /\ [][NextRuns]_vars

\* C18 - Determinism and run isolation: every run on a series returns the
\* summary of every earlier run on that series, whatever was run in
\* between; each run starts from an empty ledger, no transactions, a zero
\* reference and an empty per-day set.
C18_DeterminismAndIsolation ==
  /\ \A p \in previous, q \in previous : p[1] = q[1] => p[2] = q[2]
  /\ pc = "done" => \A p \in previous : p[1] = data => p[2] = results
  /\ pc = "start" =>
       /\ positions = <<>>
       /\ transactions = <<>>
       /\ reference = 0
       /\ buyPricesToday = {}
       /\ totalInvested = 0
       /\ totalRealized = 0

\* A series is run again after a run on another series that traded, and
\* has returned.
C18_Witness ==
  /\ pc = "done"
  /\ <<data, results>> \in previous
  /\ \E q \in previous : q[1] # data /\ q[2].totalTrades >= 2
  /\ results.totalTrades >= 2

----------------------------------------------------------------------------
\* C19 - Empty series: a run on zero bars aborts with an error and returns
\* no result, partial or not.
C19_EmptySeriesAborts ==
  /\ n = 0 =>
       /\ pc \in {"start", "threw"}
       /\ results = NoResults
       /\ transactions = <<>>
       /\ positions = <<>>
       /\ totalInvested = 0
  /\ (n = 0 /\ pc = "start") => ENABLED ThrowOnEmpty
  /\ pc = "threw" => n = 0

\* The run on zero bars has thrown.
C19_Witness ==
  /\ n = 0
  /\ pc = "threw"
  /\ ~results.returned

----------------------------------------------------------------------------
(* Price text: the fields of a row are strings; parsePrice turns them into *)
(* numbers at line 69 (OPEN of the first row) and lines 100-103.           *)

MaxTextLen == 3

Alphabet == {"0", "1", "5", ",", ".", "x"}
Digits == {"0", "1", "5"}

Texts == UNION {[1..k -> Alphabet] : k \in 0..MaxTextLen}

\* HIGH / LOW / CLOSE texts: 15, 1,5, 1.5 and 1x
BarTexts == {<<"1", "5">>, <<"1", ",", "5">>, <<"1", ".", "5">>, <<"1", "x">>}

DigitVal(c) == IF c = "0" THEN 0 ELSE IF c = "1" THEN 1 ELSE 5

\* Number of digit characters of s from position k on
RECURSIVE DigitRun(_, _)
DigitRun(s, k) ==
  IF k <= Len(s) /\ s[k] \in Digits THEN 1 + DigitRun(s, k + 1) ELSE 0

\* The number written by a sequence of digit characters
RECURSIVE DigitsValue(_)
DigitsValue(s) ==
  IF s = <<>> THEN 0
  ELSE DigitsValue(SubSeq(s, 1, Len(s) - 1)) * 10 + DigitVal(s[Len(s)])

NotANumber == [nan |-> TRUE, mantissa |-> 0, decimals |-> 0]

\* parseFloat: the longest prefix digits [. digits] with at least one
\* digit, as mantissa / 10^decimals; NaN when there is none.  The rest of
\* the string is ignored.
parseFloat(s) ==
  LET a == DigitRun(s, 1)
      hasDot == a + 1 <= Len(s) /\ s[a + 1] = "."
      b == IF hasDot THEN DigitRun(s, a + 2) ELSE 0
  IN IF a + b = 0 THEN NotANumber
     ELSE [nan |-> FALSE,
           mantissa |-> DigitsValue(SubSeq(s, 1, a)
                                      \o SubSeq(s, a + 2, a + 1 + b)),
           decimals |-> b]

IsNotComma(c) == c # ","

\* price.replace(/,/g, '')
StripCommas(price) == SelectSeq(price, IsNotComma)

\* parseFloat(price.replace(/,/g, ''))
parsePrice(price) == parseFloat(StripCommas(price))

InitParse ==
  /\ data \in {<<[DATE |-> 0, OPEN |-> o, HIGH |-> h, LOW |-> <<"1">>,
                  CLOSE |-> c]>> :
                 o \in Texts, h \in BarTexts, c \in BarTexts}
  /\ n = Len(data)
  /\ previous = {}
  /\ StartState

\* Line 69: const firstPrice = parsePrice(sortedData[0].OPEN)
ReadFirstPrice ==
  /\ pc = "start"
  /\ n > 0
  /\ firstOpen' = parsePrice(sortedData[1].OPEN)
  /\ pc' = "seed"
  /\ UNCHANGED <<data, previous, n, i, row, positions, transactions,
                 totalInvested, totalRealized, reference, sellHistory,
                 actionTaken, loopCount, lastSellPriceToday,
                 buyPricesToday, results>>

\* Lines 98-103: the row of the bar and its parsed high, low and close
ReadBar ==
  /\ pc = "seed"
  /\ row' = [DATE |-> sortedData[i + 1].DATE,
             OPEN |-> firstOpen,
             HIGH |-> parsePrice(sortedData[i + 1].HIGH),
             LOW |-> parsePrice(sortedData[i + 1].LOW),
             CLOSE |-> parsePrice(sortedData[i + 1].CLOSE)]
  /\ pc' = "while"
  /\ UNCHANGED <<data, previous, n, i, firstOpen, positions, transactions,
                 totalInvested, totalRealized, reference, sellHistory,
                 actionTaken, loopCount, lastSellPriceToday,
                 buyPricesToday, results>>

NextParse ==
  \/ ReadFirstPrice
  \/ ReadBar

SpecParse == InitParse /\ [][NextParse]_vars

\* The text, grouping separators removed, is a number from its first to
\* its last character
Parseable(price) ==
  LET s == StripCommas(price)
      a == DigitRun(s, 1)
      b == IF a + 1 <= Len(s) /\ s[a + 1] = "." THEN DigitRun(s, a + 2)
           ELSE 0
  IN /\ a + b > 0
     /\ Len(s) = (IF a + 1 <= Len(s) /\ s[a + 1] = "." THEN a + 1 + b ELSE a)

\* C20 - Malformed price text: the run does not get past reading a field
\* that is not a parseable number; it fails instead of continuing with a
\* truncated or not-a-number value.
C20_MalformedPriceFails ==
  /\ pc = "seed" => Parseable(sortedData[1].OPEN)
  /\ pc = "while" =>
       /\ Parseable(sortedData[1].OPEN)
       /\ Parseable(sortedData[1].HIGH)
       /\ Parseable(sortedData[1].LOW)
       /\ Parseable(sortedData[1].CLOSE)

----------------------------------------------------------------------------
(* Order of the input: the caller's array holds the same bars in any order *)

\* The series of the given length with one row per date, in any order
SeriesAnyOrder(len) ==
  {s \in [1..len -> UNION {PoolRows(d) : d \in 0..(len - 1)}] :
     {s[k].DATE : k \in 1..len} = 0..(len - 1)}

InitOrder ==
  /\ data \in SeriesAnyOrder(1) \cup SeriesAnyOrder(2) \cup SeriesAnyOrder(3)
  /\ n = Len(data)
  /\ previous = {}
  /\ StartState

NextOrder ==
  \/ InitialBuyGiven
  \/ BarStartGiven
  \/ Iteration
  \/ WhileExit
  \/ Finish

SpecOrder == InitOrder /\ [][NextOrder]_vars

\* C21 - Bar normalization order: the sequence the run simulates is in
\* date order, oldest first, whatever the order of the input; the seed is
\* bought on the oldest bar and the bars are read in date order.
C21_OldestFirst ==
  pc # "start" =>
    /\ \A k \in 1..(Len(sortedData) - 1) :
         sortedData[k].DATE < sortedData[k + 1].DATE
    /\ transactions[1].date = 0

----------------------------------------------------------------------------
\* C22 - Append-only audit trail: every step only appends to the
\* transaction list (the list before is a prefix of the list after, so no
\* record is changed or removed), record dates follow bar order, and every
\* record has amount = price * shares.
C22_AppendOnlyAuditTrail ==
  /\ [][ /\ Len(transactions') >= Len(transactions)
         /\ SubSeq(transactions', 1, Len(transactions)) = transactions
       ]_vars
  /\ [](\A k \in 1..Len(transactions) :
          /\ transactions[k].amount
               = transactions[k].price * transactions[k].shares
          /\ transactions[k].date \in 0..i
          /\ k < Len(transactions)
               => transactions[k].date <= transactions[k + 1].date)
  /\ [](pc = "done" => results.transactions = transactions)

\* Records of two different bars, a SELL among them, followed by a later
\* record.
C22_Witness ==
  /\ Len(transactions) >= 3
  /\ transactions[2].type = "SELL"
  /\ transactions[2].date > transactions[1].date
  /\ transactions[3].date > transactions[2].date

----------------------------------------------------------------------------
\* C23 - Same-bar sell-then-buy cascade: on a bar where a sell has set the
\* reference, a pass that reaches the buy step with the bar's low at or
\* below reference * (1 - currentThreshold), fewer than 5 lots open and no
\* lot held at that level records a BUY.
C23_SellThenBuyCascade ==
  [][ (/\ pc = "while"
       /\ actionTaken
       /\ loopCount < 20
       /\ lastSellPriceToday > 0
       /\ reference = Last(transactions).price
       /\ Last(transactions).type = "SELL"
       /\ ~SellTriggerEnabled(positions, row)
       /\ BuyTriggerEnabled(positions, reference, row, buyPricesToday))
        => Recorded("BUY")
    ]_vars

----------------------------------------------------------------------------
----------------------------------------------------------------------------
----------------------------------------------------------------------------
\* C26 - The cap blocks only buying: with 5 lots open no BUY is recorded,
\* and a pass on a bar with 5 lots open still sells the lowest eligible
\* lot when its sell target is within the bar's high.
C26_CapBlocksOnlyBuying ==
  [][ /\ Len(positions) >= 5 => ~Recorded("BUY")
      /\ (/\ pc = "while"
          /\ actionTaken
          /\ loopCount < 20
          /\ Len(positions) = 5
          /\ SellTriggerEnabled(positions, row))
           => /\ Recorded("SELL")
              /\ Len(positions') = 4
    ]_vars

\* A bar that started with 5 lots open has sold the lowest of them.
C26_Witness ==
  /\ pc = "while"
  /\ Len(positions) = 4
  /\ Last(transactions).type = "SELL"
  /\ Last(transactions).date = row.DATE
  /\ Len(transactions) = 6
  /\ \A j \in 1..4 : positions[j].buyDate # row.DATE

----------------------------------------------------------------------------
\* C27 - The 20-pass safety cap is never reached: no pass of any bar takes
\* the 'Infinite loop detected' branch (the pass counter never exceeds the
\* cap; a bar takes at most 6 passes), and the processing of every bar
\* ends: every pass that stays in the bar raises the counter, and a step
\* that leaves the bar moves on to the next one.
C27_PassCapNeverReached ==
  /\ [][ (pc = "while" /\ actionTaken) => loopCount + 1 <= MAX_LOOPS ]_vars
  /\ [][ (pc = "while" /\ pc' = "while") => loopCount' = loopCount + 1 ]_vars
  /\ [][ (pc = "while" /\ pc' # "while") => pc' = "loop" /\ i' = i + 1 ]_vars
  /\ [](loopCount <= 6)

\* A bar has ended after its longest run of passes.
C27_Witness ==
  /\ pc = "loop"
  /\ loopCount >= 5
  /\ ~actionTaken
  /\ Len(transactions) >= 5

----------------------------------------------------------------------------
(* Several bars on one date: a row carries the date of its position or    *)
(* the date of the position before it.                                     *)

MaxDatedBars == 3

DatedFirstRows ==
  {[DATE |-> 0, OPEN |-> 1000, HIGH |-> h, LOW |-> l, CLOSE |-> c] :
      h \in {1000, 1150}, l \in {910, 1000}, c \in {910, 1000}}

DatedLaterRows(d) ==
  {[DATE |-> t, OPEN |-> c, HIGH |-> h, LOW |-> l, CLOSE |-> c] :
      t \in {d - 1, d}, h \in {1000, 1150}, l \in {910, 1000},
      c \in {910, 1000}}

InitDated ==
  /\ n \in 1..MaxDatedBars
  /\ RowsDrawn
  /\ StartState

InitialBuyDated == SeedFrom(DatedFirstRows)

BarStartDated == BarStartIn(DatedLaterRows(i))

NextDated ==
  \/ InitialBuyDated
  \/ BarStartDated
  \/ Iteration
  \/ WhileExit
  \/ Finish

SpecDated == InitDated /\ [][NextDated]_vars

\* The pass goes through the branch of lines 208-275: the lowest-priced
\* lot carries the date of the bar
LowestLotLocked ==
  /\ pc = "while"
  /\ actionTaken
  /\ positions # <<>>
  /\ boughtToday(SortByBuyPrice(positions)[1], row.DATE)

\* C28 - After a BUY is recorded on a bar, no SELL is recorded later on
\* that bar, and the branch that sells the next eligible lot when the
\* lowest lot is locked never produces a SELL.
C28_NoSellAfterBuyOnBar ==
  [][ /\ buyPricesToday # {} => ~Recorded("SELL")
      /\ LowestLotLocked => ~Recorded("SELL")
    ]_vars

\* C28 (amended) - After a BUY is recorded on a bar, no SELL is recorded
\* later on that bar; the locked-lot branch produces a SELL only on a bar
\* that has bought nothing itself and whose date is that of an earlier bar
\* on which the locked lot was bought.
C28_NoSellAfterBuyOnBarAmended ==
  [][ /\ buyPricesToday # {} => ~Recorded("SELL")
      /\ (LowestLotLocked /\ Recorded("SELL"))
           => /\ buyPricesToday = {}
              /\ i > 0
              /\ \E k \in 1..Len(transactions) :
                   /\ transactions[k].type = "BUY"
                   /\ transactions[k].date = row.DATE
              /\ Last(transactions').buyDate # row.DATE
    ]_vars

\* A second bar of a date has sold an older lot past the locked lot bought
\* on the first bar of that date.
C28_Witness ==
  /\ pc = "while"
  /\ Last(transactions).type = "SELL"
  /\ Last(transactions).date = row.DATE
  /\ positions # <<>>
  /\ positions[1].buyDate = row.DATE
  /\ positions[1].buyPrice < Last(transactions).boughtAt
  /\ buyPricesToday = {}

----------------------------------------------------------------------------
\* Number of transactions of the given type in txs
CountOf(txs, type) ==
  Cardinality({k \in 1..Len(txs) : txs[k].type = type})

\* The BUY records before position k that the SELL at k matches
MatchedBuys(txs, k) ==
  {j \in 1..(k - 1) :
     /\ txs[j].type = "BUY"
     /\ txs[j].price = txs[k].boughtAt
     /\ txs[j].shares = txs[k].shares
     /\ txs[j].date = txs[k].buyDate}

\* C29 - Lot conservation: in every state the number of BUY transactions
\* is the number of SELL transactions plus the number of open lots, and
\* every SELL matches exactly one earlier BUY (price = boughtAt, same
\* shares, date = buyDate) that no other SELL matches.
C29_LotConservation ==
  /\ CountOf(transactions, "BUY")
       = CountOf(transactions, "SELL") + Len(positions)
  /\ \A k \in 1..Len(transactions) :
       transactions[k].type = "SELL" =>
         /\ Cardinality(MatchedBuys(transactions, k)) = 1
         /\ \A m \in 1..Len(transactions) :
              (m # k /\ transactions[m].type = "SELL")
                => MatchedBuys(transactions, m) # MatchedBuys(transactions, k)

\* Two lots have been sold and others are open.
C29_Witness ==
  /\ CountOf(transactions, "SELL") >= 2
  /\ Len(positions) >= 2
  /\ transactions[2].type = "BUY"

----------------------------------------------------------------------------
\* C30 - Realized profit is never negative: every SELL transaction has
\* profit >= 0, strictly positive when the lot holds at least one share,
\* hence totalProfit >= 0 and profitPercentage >= 0 in the summary.
C30_ProfitNeverNegative ==
  /\ \A k \in 1..Len(transactions) :
       transactions[k].type = "SELL" =>
         /\ transactions[k].profit >= 0
         /\ transactions[k].shares >= 1 => transactions[k].profit > 0
         /\ transactions[k].price > transactions[k].boughtAt
  /\ pc = "done" =>
       /\ results.totalProfit >= 0
       /\ results.profitPercentage >= 0
       /\ results.annualizedROI >= 0

\* A returned run with two SELLs and a positive headline profit.
C30_Witness ==
  /\ pc = "done"
  /\ CountOf(results.transactions, "SELL") >= 2
  /\ results.totalProfit > 0
  /\ results.profitPercentage > 0

----------------------------------------------------------------------------
\* Sum of shares * boughtAt over the SELL records of txs: the cost of the
\* lots sold
RECURSIVE CostOfSold(_)
CostOfSold(txs) ==
  IF txs = <<>> THEN 0
  ELSE (IF txs[1].type = "SELL" THEN txs[1].shares * txs[1].boughtAt ELSE 0)
       + CostOfSold(Tail(txs))

\* Sum of shares * buyPrice over the lots of pos
RECURSIVE CostOfOpen(_)
CostOfOpen(pos) ==
  IF pos = <<>> THEN 0
  ELSE pos[1].shares * pos[1].buyPrice + CostOfOpen(Tail(pos))

\* Sum of shares * (px - buyPrice) over the lots of pos
RECURSIVE UnrealizedAt(_, _)
UnrealizedAt(pos, px) ==
  IF pos = <<>> THEN 0
  ELSE pos[1].shares * (px - pos[1].buyPrice) + UnrealizedAt(Tail(pos), px)

\* C31 - Accounting identity of the summary: totalInvested is the cost of
\* the lots sold plus the cost of the lots still open, so totalValue -
\* totalInvested = totalProfit + sum over the open lots of
\* shares * (lastClose - entryPrice).
C31_AccountingIdentity ==
  pc = "done" =>
    /\ results.totalInvested
         = CostOfSold(results.transactions)
             + CostOfOpen(results.remainingPositions)
    /\ results.totalValue - results.totalInvested
         = results.totalProfit
             + UnrealizedAt(results.remainingPositions, results.currentPrice)

\* A returned run with a realized profit and open lots away from cost.
C31_Witness ==
  /\ pc = "done"
  /\ results.totalProfit > 0
  /\ Len(results.remainingPositions) >= 2
  /\ UnrealizedAt(results.remainingPositions, results.currentPrice) < 0
  /\ results.totalValue < results.totalInvested

----------------------------------------------------------------------------
\* low <= open <= high and low <= close <= high
WellFormedBar(r) ==
  /\ r.LOW <= r.OPEN /\ r.OPEN <= r.HIGH
  /\ r.LOW <= r.CLOSE /\ r.CLOSE <= r.HIGH

\* C32 - Every BUY executes at a price that traded on its bar: on a bar
\* with low <= open <= high and low <= close <= high every BUY price lies
\* within [low, high], and every BUY after the seed is at or below
\* reference * (1 - currentThreshold) for the reference just before it.
C32_BuyWithinBarRange ==
  [][ (Recorded("BUY") /\ WellFormedBar(row')) =>
        LET t == Last(transactions') IN
        /\ t.date = row'.DATE
        /\ row'.LOW <= t.price
        /\ t.price <= row'.HIGH
        /\ Len(transactions) > 0
             => /\ row' = row
                /\ t.price <= Mul(reference,
                                  100 - (IF Len(positions) <= 2 THEN 5
                                         ELSE IF Len(positions) = 3 THEN 10
                                         ELSE 20))
    ]_vars

\* A well-formed bar whose high stays under the target has bought at its
\* close (gap down), above its low, and then once more at the next target.
C32_Witness ==
  /\ pc = "while"
  /\ WellFormedBar(row)
  /\ Len(transactions) >= 3
  /\ Last(transactions).type = "BUY"
  /\ Last(transactions).date = row.DATE
  /\ transactions[2].type = "BUY"
  /\ transactions[2].date = row.DATE
  /\ transactions[2].price = row.CLOSE
  /\ row.LOW < row.CLOSE
  /\ row.HIGH < Mul(transactions[1].price, 95)

----------------------------------------------------------------------------
(* C33: bars that start with no eligible lot                               *)

\* The transactions dated d, and those dated before d, in recorded order
RECURSIVE TxOn(_, _)
TxOn(txs, d) ==
  IF txs = <<>> THEN <<>>
  ELSE IF txs[1].date = d THEN <<txs[1]>> \o TxOn(Tail(txs), d)
  ELSE TxOn(Tail(txs), d)

RECURSIVE TxBefore(_, _)
TxBefore(txs, d) ==
  IF txs = <<>> THEN <<>>
  ELSE IF txs[1].date < d THEN <<txs[1]>> \o TxBefore(Tail(txs), d)
  ELSE TxBefore(Tail(txs), d)

\* The ledger was empty when the bar dated d started: every lot bought on
\* an earlier bar was sold on an earlier bar
EmptyBefore(txs, d) ==
  CountOf(TxBefore(txs, d), "BUY") = CountOf(TxBefore(txs, d), "SELL")

----------------------------------------------------------------------------
(* C34: the two reference resets at the top of a bar                       *)

\* C34: at the top of a bar the recovery reset (empty ledger, close above
\* 105% of the reference) leaves the reference at the bar's high and the
\* falling-market reset (open lots, close under 80% of the reference) leaves
\* it at the bar's close, never both; when neither condition holds the inner
\* loop starts with the reference the previous bar ended with; inside the
\* inner loop the reference moves only to the price of a trade recorded on
\* that pass.
C34_ExclusiveResets ==
  /\ [][ (pc = "loop" /\ pc' = "while") =>
           LET r == row'
               recovery == /\ positions = <<>>
                           /\ r.CLOSE * 100 > reference * 105
               falling == /\ positions # <<>>
                          /\ r.CLOSE * 100 < reference * 80
           IN /\ ~(recovery /\ falling)
              /\ recovery => reference' = r.HIGH
              /\ falling => reference' = r.CLOSE
              /\ (~recovery /\ ~falling) => reference' = reference
              /\ loopCount' = 0
       ]_vars
  /\ [][ (pc = "while" /\ reference' # reference) =>
           /\ Len(transactions') = Len(transactions) + 1
           /\ reference' = Last(transactions').price
       ]_vars

\* The recovery reset has just fired on a bar whose close is also under 80%
\* of the new reference: the reference stays at the high
C34_Witness ==
  /\ pc = "while"
  /\ loopCount = 0
  /\ positions = <<>>
  /\ transactions # <<>>
  /\ Last(transactions).type = "SELL"
  /\ row.CLOSE * 100 > Last(transactions).price * 105
  /\ row.CLOSE * 100 < row.HIGH * 80
  /\ reference = row.HIGH

----------------------------------------------------------------------------
(* The caller's array: sortedData is built from a copy of data             *)

\* The array with its rows in the opposite order
Reversed(arr) == [k \in 1..Len(arr) |-> arr[Len(arr) + 1 - k]]

\* data.reverse(): reverses the caller's array in place and returns it
ReversedCopyMutInPlace(arr) ==
  [input |-> Reversed(arr), sorted |-> Reversed(arr)]

\* Line 53, [...data].reverse(): the spread makes a new array, reverse()
\* reverses that one in place; input is the caller's array afterwards
ReversedCopy(arr) == [input |-> arr, sorted |-> Reversed(arr)]

InitInput ==
  /\ data \in {<<>>} \cup SeriesAnyOrder(1) \cup SeriesAnyOrder(2)
                \cup SeriesAnyOrder(3)
  /\ n = Len(data)
  /\ previous = {}
  /\ StartState

\* Lines 53 and 69-88 on the caller's array
InitialBuyCopied ==
  LET c == ReversedCopy(data) IN SeedWith({c.sorted[1]}, c.input)

NextInput ==
  \/ ThrowOnEmpty
  \/ InitialBuyCopied
  \/ BarStartGiven
  \/ Iteration
  \/ WhileExit
  \/ Finish

SpecInput == InitInput /\ [][NextInput]_vars

\* C35: no step of a run changes the caller's data array (same rows, same
\* order), and the run simulates the reversed copy: its seed is bought on
\* the last row of the caller's array.
C35_InputUntouched ==
  /\ [][data' = data]_vars
  /\ [](pc \in {"loop", "while", "done"} =>
          /\ transactions[1].date = data[Len(data)].DATE
          /\ transactions[1].price = data[Len(data)].OPEN)

\* A run over three rows, whose first and last rows differ, has returned
C35_Witness ==
  /\ pc = "done"
  /\ results.returned
  /\ Len(data) = 3
  /\ data[1] # data[3]
  /\ Len(results.transactions) >= 2

----------------------------------------------------------------------------
(* C36: the reference after several sells on one bar                       *)

\* The SELL records among the given transactions
RECURSIVE SellsOf(_)
SellsOf(txs) ==
  IF txs = <<>> THEN <<>>
  ELSE IF txs[1].type = "SELL" THEN <<txs[1]>> \o SellsOf(Tail(txs))
  ELSE SellsOf(Tail(txs))

\* The highest price among the given transactions, 0 when there is none
RECURSIVE HighestPrice(_)
HighestPrice(txs) ==
  IF txs = <<>> THEN 0 ELSE Max(txs[1].price, HighestPrice(Tail(txs)))

\* Runs of up to four bars over a few price levels; a bar may carry any
\* combination of them, a close above its high included
MaxLongBars == 4

LongLevels == {120, 750, 905, 910}

LongFirstRows ==
  {[DATE |-> 0, OPEN |-> 1000, HIGH |-> h, LOW |-> l, CLOSE |-> c] :
      h \in LongLevels, l \in LongLevels, c \in LongLevels}

LongLaterRows(d) ==
  {[DATE |-> d, OPEN |-> c, HIGH |-> h, LOW |-> l, CLOSE |-> c] :
      h \in LongLevels, l \in LongLevels, c \in LongLevels}

InitLong ==
  /\ n \in 1..MaxLongBars
  /\ RowsDrawn
  /\ StartState

InitialBuyLong == SeedFrom(LongFirstRows)

BarStartLong == BarStartIn(LongLaterRows(i))

NextLong ==
  \/ InitialBuyLong
  \/ BarStartLong
  \/ Iteration
  \/ WhileExit
  \/ Finish

SpecLong == InitLong /\ [][NextLong]_vars

\* C36 (header rule 4): when the last bar read is over and two or more lots
\* were sold on it, the reference equals the highest of that bar's sell
\* prices.
C36_HighestSellIsReference ==
  (pc \in {"loop", "done"} /\ i = n) =>
    LET sells == SellsOf(TxOn(transactions, row.DATE)) IN
    Len(sells) >= 2 => reference = HighestPrice(sells)

----------------------------------------------------------------------------
(* The stack engine, runBacktestStack: lots are pushed on positionStack,   *)
(* held here in positions, and sold from its end.                          *)

MaxStackBars == 3

\* Prices of the stack runs, in thousandths of a currency unit
StackLevels == {900, 950, 1000, 1050}

\* sortedData[0] of a stack run
StackFirstRows ==
  {[DATE |-> 0, OPEN |-> 1000, HIGH |-> h, LOW |-> l, CLOSE |-> c] :
      h \in StackLevels, l \in StackLevels, c \in StackLevels}

\* sortedData[d] for d > 0
StackLaterRows(d) ==
  {[DATE |-> d, OPEN |-> c, HIGH |-> h, LOW |-> l, CLOSE |-> c] :
      h \in StackLevels, l \in StackLevels, c \in StackLevels}

StackPosition(price, date) ==
  [buyPrice |-> price, shares |-> Shares(price), buyDate |-> date]

StackBuyTransaction(date, price) ==
  [date |-> date, type |-> "BUY", price |-> price, shares |-> Shares(price),
   amount |-> Shares(price) * price, boughtAt |-> UNDEF, profit |-> UNDEF]

\* topPosition.buyPrice * (1 + THRESHOLD)
StackSellPrice(pos) == Mul(pos.buyPrice, 100 + THRESHOLD)

StackSellTransaction(date, pos) ==
  LET sellPrice == StackSellPrice(pos)
      sellAmount == pos.shares * sellPrice
  IN [date |-> date, type |-> "SELL", price |-> sellPrice,
      shares |-> pos.shares, amount |-> sellAmount,
      boughtAt |-> pos.buyPrice,
      profit |-> sellAmount - pos.shares * pos.buyPrice]

InitStack ==
  /\ n \in 1..MaxStackBars
  /\ RowsDrawn
  /\ StartState

\* The first buy at the OPEN of the first day
StackFirstBuy ==
  /\ pc = "start"
  /\ \E r \in StackFirstRows :
       /\ row' = r
       /\ firstOpen' = r.OPEN
       /\ positions' = Append(positions, StackPosition(r.OPEN, r.DATE))
       /\ totalInvested' = totalInvested + Shares(r.OPEN) * r.OPEN
       /\ transactions' =
            Append(transactions, StackBuyTransaction(r.DATE, r.OPEN))
  /\ pc' = "loop"
  /\ UNCHANGED <<data, previous, n, i, totalRealized, reference,
                 sellHistory, actionTaken, loopCount, lastSellPriceToday,
                 buyPricesToday, results>>

\* Top of the daily loop: the row of day i; row 0 was read by the first buy
StackBarStart ==
  /\ pc = "loop"
  /\ i < n
  /\ \E r \in (IF i = 0 THEN {row} ELSE StackLaterRows(i)) : row' = r
  /\ pc' = "while"
  /\ UNCHANGED <<data, previous, n, i, firstOpen, positions, transactions,
                 totalInvested, totalRealized, reference, sellHistory,
                 actionTaken, loopCount, lastSellPriceToday,
                 buyPricesToday, results>>

\* One pass of the sell check that pops the top of the stack
StackSell ==
  /\ pc = "while"
  /\ positions # <<>>
  /\ row.HIGH >= StackSellPrice(Last(positions))
  /\ LET t == StackSellTransaction(row.DATE, Last(positions)) IN
     /\ positions' = SubSeq(positions, 1, Len(positions) - 1)
     /\ totalRealized' = totalRealized + t.amount
     /\ transactions' = Append(transactions, t)
  /\ UNCHANGED <<data, previous, n, pc, i, row, firstOpen, totalInvested,
                 reference, sellHistory, actionTaken, loopCount,
                 lastSellPriceToday, buyPricesToday, results>>

\* The sell check stops (empty stack, or the top misses its target); then
\* the buy check against the top of the stack, and the day ends
StackBuyCheck ==
  /\ pc = "while"
  /\ IF positions = <<>> THEN TRUE
     ELSE row.HIGH < StackSellPrice(Last(positions))
  /\ IF (IF positions = <<>> THEN FALSE
         ELSE row.LOW <= Mul(Last(positions).buyPrice, 100 - THRESHOLD))
     THEN LET buyPrice == Mul(Last(positions).buyPrice, 100 - THRESHOLD) IN
          /\ positions' = Append(positions, StackPosition(buyPrice, row.DATE))
          /\ totalInvested' = totalInvested + Shares(buyPrice) * buyPrice
          /\ transactions' =
               Append(transactions, StackBuyTransaction(row.DATE, buyPrice))
     ELSE UNCHANGED <<positions, totalInvested, transactions>>
  /\ EndBar
  /\ UNCHANGED <<data, previous, n, firstOpen, totalRealized, reference,
                 sellHistory, actionTaken, loopCount, lastSellPriceToday,
                 buyPricesToday, results>>

\* The summary returned by runBacktestStack
StackFinish ==
  /\ pc = "loop"
  /\ i >= n
  /\ LET lastClose == row.CLOSE
         currentValue == CurrentValue(positions, lastClose)
         totalValue == totalRealized + currentValue
         totalProfit == totalValue - totalInvested
     IN results' =
          [returned |-> TRUE,
           totalInvested |-> totalInvested,
           totalRealized |-> totalRealized,
           currentValue |-> currentValue,
           totalValue |-> totalValue,
           totalProfit |-> totalProfit,
           profitPercentage |-> (totalProfit * 100) \div totalInvested,
           transactions |-> transactions,
           remainingPositions |-> positions,
           totalTrades |-> Len(transactions),
           currentPrice |-> lastClose]
  /\ pc' = "done"
  /\ UNCHANGED <<data, previous, n, i, row, firstOpen, positions,
                 transactions, totalInvested, totalRealized, reference,
                 sellHistory, actionTaken, loopCount, lastSellPriceToday,
                 buyPricesToday>>

NextStack ==
  \/ StackFirstBuy
  \/ StackBarStart
  \/ StackSell
  \/ StackBuyCheck
  \/ StackFinish

SpecStack == InitStack /\ [][NextStack]_vars

\* The buy prices of the lots still open after the given transactions when
\* every SELL closes the most recently bought open lot
RECURSIVE OpenAfter(_)
OpenAfter(txs) ==
  IF txs = <<>> THEN <<>>
  ELSE LET before == OpenAfter(SubSeq(txs, 1, Len(txs) - 1))
           t == txs[Len(txs)]
       IN IF t.type = "BUY" THEN Append(before, t.price)
          ELSE SubSeq(before, 1, Len(before) - 1)

\* Every SELL closes the most recently bought lot that is still open
SoldTopFirst(txs) ==
  \A k \in 1..Len(txs) :
    txs[k].type = "SELL" =>
      LET before == OpenAfter(SubSeq(txs, 1, k - 1)) IN
      /\ before # <<>>
      /\ txs[k].boughtAt = Last(before)

\* C37: in a run of the stack engine no day carries more than one BUY
\* record, and every SELL closes the lot on top of the stack, so a lot is
\* sold only after every lot bought after it has been sold.
C37_OneBuyPerDayLifo ==
  /\ \A k \in 1..Len(transactions) :
       CountOf(TxOn(transactions, transactions[k].date), "BUY") <= 1
  /\ SoldTopFirst(transactions)

----------------------------------------------------------------------------
(* The multi-position engine, runBacktest of utils/backtestEngine.ts: per  *)
(* day one sell scan over all lots, then one buy scan over the lots left.  *)

MaxMultiBars == 3

\* Prices of the multi-position runs, in thousandths of a currency unit:
\* 880.000, 950.000, 1000.000 and 1050.000
MultiLevels == {880000, 950000, 1000000, 1050000}

\* sortedData[0] of a multi-position run
MultiFirstRows ==
  {[DATE |-> 0, OPEN |-> 1000000, HIGH |-> h, LOW |-> l, CLOSE |-> c] :
      h \in MultiLevels, l \in MultiLevels, c \in MultiLevels}

\* sortedData[d] for d > 0
MultiLaterRows(d) ==
  {[DATE |-> d, OPEN |-> c, HIGH |-> h, LOW |-> l, CLOSE |-> c] :
      h \in MultiLevels, l \in MultiLevels, c \in MultiLevels}

MultiPosition(price, date) ==
  [buyPrice |-> price, shares |-> Shares(price), buyDate |-> date]

MultiBuyTransaction(date, price) ==
  [date |-> date, type |-> "BUY", price |-> price, shares |-> Shares(price),
   amount |-> Shares(price) * price, boughtAt |-> UNDEF, profit |-> UNDEF]

\* pos.buyPrice * (1 + THRESHOLD)
MultiSellPrice(pos) == Mul(pos.buyPrice, 100 + THRESHOLD)

MultiSellTransaction(date, pos) ==
  LET sellPrice == MultiSellPrice(pos)
      sellAmount == pos.shares * sellPrice
  IN [date |-> date, type |-> "SELL", price |-> sellPrice,
      shares |-> pos.shares, amount |-> sellAmount,
      boughtAt |-> pos.buyPrice,
      profit |-> sellAmount - pos.shares * pos.buyPrice]

\* The SELL records of the sell scan, in index order
RECURSIVE MultiSells(_, _)
MultiSells(pos, r) ==
  IF pos = <<>> THEN <<>>
  ELSE (IF r.HIGH >= MultiSellPrice(Head(pos))
        THEN <<MultiSellTransaction(r.DATE, Head(pos))>> ELSE <<>>)
         \o MultiSells(Tail(pos), r)

\* The lots left once the sold ones are spliced out
RECURSIVE MultiKept(_, _)
MultiKept(pos, r) ==
  IF pos = <<>> THEN <<>>
  ELSE (IF r.HIGH >= MultiSellPrice(Head(pos)) THEN <<>> ELSE <<Head(pos)>>)
         \o MultiKept(Tail(pos), r)

\* potentialBuys.some(p => Math.abs(p - buyPrice) < 0.01)
SomeNear(prices, buyPrice) ==
  \E k \in 1..Len(prices) : Abs(prices[k] - buyPrice) < LEVEL_TOLERANCE

\* Lines 75-93: the scan from index j over the lots held after the sells
RECURSIVE MultiPotentialBuys(_, _, _, _)
MultiPotentialBuys(pos, j, r, acc) ==
  IF j > Len(pos) THEN acc
  ELSE LET buyPrice == Mul(pos[j].buyPrice, 100 - THRESHOLD) IN
       IF /\ r.LOW <= buyPrice
          /\ ~existingAtLevel(pos, buyPrice)
          /\ ~SomeNear(acc, buyPrice)
       THEN MultiPotentialBuys(pos, j + 1, r, Append(acc, buyPrice))
       ELSE MultiPotentialBuys(pos, j + 1, r, acc)

\* potentialBuys.sort((a, b) => a - b)
RECURSIVE InsertAscending(_, _)
InsertAscending(x, s) ==
  IF s = <<>> THEN <<x>>
  ELSE IF s[Len(s)] <= x THEN Append(s, x)
  ELSE Append(InsertAscending(x, SubSeq(s, 1, Len(s) - 1)), s[Len(s)])

RECURSIVE SortAscending(_)
SortAscending(s) ==
  IF s = <<>> THEN <<>>
  ELSE InsertAscending(s[Len(s)], SortAscending(SubSeq(s, 1, Len(s) - 1)))

\* The sum of shares * buyPrice over the buys executed
RECURSIVE MultiCost(_)
MultiCost(prices) ==
  IF prices = <<>> THEN 0
  ELSE Shares(Head(prices)) * Head(prices) + MultiCost(Tail(prices))

\* The sum of the sell amounts
RECURSIVE MultiProceeds(_)
MultiProceeds(txs) ==
  IF txs = <<>> THEN 0 ELSE Head(txs).amount + MultiProceeds(Tail(txs))

InitMulti ==
  /\ n \in 1..MaxMultiBars
  /\ RowsDrawn
  /\ StartState

\* The first buy at the OPEN of the first day, lines 20-36
MultiFirstBuy ==
  /\ pc = "start"
  /\ \E r \in MultiFirstRows :
       /\ row' = r
       /\ firstOpen' = r.OPEN
       /\ positions' = Append(positions, MultiPosition(r.OPEN, r.DATE))
       /\ totalInvested' = totalInvested + Shares(r.OPEN) * r.OPEN
       /\ transactions' =
            Append(transactions, MultiBuyTransaction(r.DATE, r.OPEN))
  /\ pc' = "loop"
  /\ UNCHANGED <<data, previous, n, i, totalRealized, reference,
                 sellHistory, actionTaken, loopCount, lastSellPriceToday,
                 buyPricesToday, results>>

\* One day of the loop, lines 39-119; row 0 was read by the first buy
MultiDay ==
  /\ pc = "loop"
  /\ i < n
  /\ \E r \in (IF i = 0 THEN {row} ELSE MultiLaterRows(i)) :
       LET sells == MultiSells(positions, r)
           kept == MultiKept(positions, r)
           buys == SortAscending(MultiPotentialBuys(kept, 1, r, <<>>))
       IN /\ row' = r
          /\ totalRealized' = totalRealized + MultiProceeds(sells)
          /\ totalInvested' = totalInvested + MultiCost(buys)
          /\ positions' =
               kept \o [k \in 1..Len(buys) |-> MultiPosition(buys[k], r.DATE)]
          /\ transactions' =
               transactions \o sells
                 \o [k \in 1..Len(buys) |-> MultiBuyTransaction(r.DATE, buys[k])]
  /\ i' = i + 1
  /\ UNCHANGED <<data, previous, n, pc, firstOpen, reference, sellHistory,
                 actionTaken, loopCount, lastSellPriceToday,
                 buyPricesToday, results>>

\* The summary returned, lines 121-143
MultiFinish ==
  /\ pc = "loop"
  /\ i >= n
  /\ LET lastClose == row.CLOSE
         currentValue == CurrentValue(positions, lastClose)
         totalValue == totalRealized + currentValue
         totalProfit == totalValue - totalInvested
     IN results' =
          [returned |-> TRUE,
           totalInvested |-> totalInvested,
           totalRealized |-> totalRealized,
           currentValue |-> currentValue,
           totalValue |-> totalValue,
           totalProfit |-> totalProfit,
           profitPercentage |-> (totalProfit * 100) \div totalInvested,
           transactions |-> transactions,
           remainingPositions |-> positions,
           totalTrades |-> Len(transactions),
           currentPrice |-> lastClose]
  /\ pc' = "done"
  /\ UNCHANGED <<data, previous, n, i, row, firstOpen, positions,
                 transactions, totalInvested, totalRealized, reference,
                 sellHistory, actionTaken, loopCount, lastSellPriceToday,
                 buyPricesToday>>

NextMulti ==
  \/ MultiFirstBuy
  \/ MultiDay
  \/ MultiFinish

SpecMulti == InitMulti /\ [][NextMulti]_vars

\* The records a step has appended to the transaction list
Appended == SubSeq(transactions', Len(transactions) + 1, Len(transactions'))

\* C38: in the multi-position engine a day that starts with one open lot at
\* 1000, has its low at 880 and its high below 1050, records two BUYs, one
\* at 950 and one at 902.50 (the second triggered by the lot bought at 950
\* that same day).
C38_SameDayCascade ==
  [][ ( /\ pc = "loop"
        /\ i' = i + 1
        /\ Len(positions) = 1
        /\ positions[1].buyPrice = 1000000
        /\ row'.LOW = 880000
        /\ row'.HIGH < 1050000 )
      => /\ Len(Appended) = 2
         /\ {Appended[k].type : k \in 1..Len(Appended)} = {"BUY"}
         /\ {Appended[k].price : k \in 1..Len(Appended)} = {950000, 902500}
    ]_vars

====
